---- MODULE Spec2Model ----
(***************************************************************************)
(* docfinder: fan-out search aggregation (src/search/unified.js), the      *)
(* Microsoft and Google connectors, and the per-account token lifecycle    *)
(* (connectors/microsoft.js getAccessToken, auth/google.js                 *)
(* getAuthorizedClient, tokenStore.js).                                    *)
(*                                                                         *)
(* Representation notes.                                                   *)
(*  - A JavaScript string is a sequence of tokens (a token is a TLA+       *)
(*    string standing for one or more characters), so that concatenation,  *)
(*    startsWith, includes and toLowerCase are computed, not assumed.      *)
(*    "" is << >>.                                                         *)
(*  - Time is counted in minutes (Date.now() / 60000).                     *)
(*  - A relevance score is counted in tenths (0.6 is 6) and a rank in      *)
(*    units of 1 / (50 * Year): rank * 50 * Year is an integer for the     *)
(*    inputs drawn here, and the order of two ranks is unchanged.          *)
(*  - null / undefined: modified = 0 (falsy in rank), score = NoScore,     *)
(*    account = << >> (falsy in the account filter).                       *)
(***************************************************************************)
EXTENDS Integers, Sequences, FiniteSets, TLC

VARIABLES
    op,         \* the operation that ran last: "none" (idle), "dedupe", "rank", "search", ...
    arg,        \* the arguments (and external responses) of that operation
    ret,        \* what that operation returned
    now,        \* Date.now(), in minutes
    ticks,      \* how many times the clock has advanced
    keychain,   \* keytar: key(provider, alias) -> << >> or <<the stored token record>>
    tokenStore, \* which tokenStore the connectors are wired to: "keychain" or "plain"
    cfg         \* the loaded configuration: per provider, enabled and the account aliases

vars == <<op, arg, ret, now, ticks, keychain, tokenStore, cfg>>

durable == <<keychain, tokenStore, cfg>>

----------------------------------------------------------------------------
(* Bounds *)

MaxLen == 2          \* longest enumerated input list of the pure-function harness
BulkExtra == 1       \* the bulk list holds SliceLimit + BulkExtra entries

(* Program constants *)

SliceLimit == 200    \* .slice(0, 200)
Year == 525600       \* 1000*60*60*24*365 ms, in minutes
MaxYears == 5        \* Math.min(recencyBoost, 5); also the null-modified age
ScoreExact == 0      \* score = 0.0
ScoreSubstring == 2  \* score = 0.2
ScoreDefault == 6    \* r.score ?? 0.6
ScoreNoQuery == 10   \* let score = 1.0
NoScore == -1        \* r.score is undefined
Now0 == 15768000     \* the clock at Init: 30 years after the epoch
buffer == 5          \* 300000 ms: the expiry safety buffer of getAccessToken
DefaultLifetime == 60 \* Date.now() + 3600000: expiry assumed when the response has none
MaxTicks == 2        \* bound: how many times the clock advances

----------------------------------------------------------------------------
(* String helpers *)

Lower(c) == IF c = "A" THEN "a" ELSE IF c = "B" THEN "b" ELSE c

toLowerCase(s) == [i \in 1..Len(s) |-> Lower(s[i])]

includes(s, sub) ==
    \E i \in 0..(Len(s) - Len(sub)) : SubSeq(s, i + 1, i + Len(sub)) = sub

startsWith(s, pre) ==
    Len(pre) <= Len(s) /\ SubSeq(s, 1, Len(pre)) = pre

Min(a, b) == IF a <= b THEN a ELSE b

----------------------------------------------------------------------------
(* src/search/unified.js *)

\* fault: the title is made part of the key
keyOfWithTitle(r) == r.source \o <<":">> \o r.id \o <<":">> \o r.title

\* fault: the key is the title alone
keyOfTitleOnly(r) == r.title

\* `${r.source}:${(r.id||'')}` || `${r.title}:${r.size}:${r.modified}`
keyOf(r) ==
    LET primary == r.source \o <<":">> \o r.id
        fallback == r.title \o <<":", ToString(r.size), ":", ToString(r.modified)>>
    IN  IF primary # << >> THEN primary ELSE fallback

\* for (const r of results) if (!seen.has(k)) seen.set(k, r); then the values
\* in insertion order: the results whose key no earlier result has
dedupe(results) ==
    LET keys == [i \in 1..Len(results) |-> keyOf(results[i])]
        first == SelectSeq([i \in 1..Len(results) |-> i],
                           LAMBDA i : \A j \in 1..(i - 1) : keys[j] # keys[i])
    IN  [n \in 1..Len(first) |-> results[first[n]]]

\* fault: the if (q) guard is missing, so "" is compared with the title
TitleScoreNoGuard(r, q) ==
    LET title == toLowerCase(r.title)
    IN  IF title = q THEN ScoreExact
        ELSE IF includes(title, q) THEN ScoreSubstring
        ELSE IF r.score # NoScore THEN r.score ELSE ScoreDefault

\* score of one result, in tenths
TitleScore(r, q) ==
    LET title == toLowerCase(r.title)
    IN  IF q # << >>
        THEN IF title = q THEN ScoreExact
             ELSE IF includes(title, q) THEN ScoreSubstring
             ELSE IF r.score # NoScore THEN r.score ELSE ScoreDefault
        ELSE ScoreNoQuery

\* Math.min(recencyBoost, 5) * 0.02, times 50 * Year
RecencyTerm(r, t) ==
    IF r.modified # 0 THEN Min(t - r.modified, MaxYears * Year) ELSE MaxYears * Year

\* score + Math.min(recencyBoost, 5) * 0.02, times 50 * Year
RankOf(r, q, t) == TitleScore(r, q) * 5 * Year + RecencyTerm(r, t)

WithRank(r, v) == ("rank" :> v) @@ r

MinOf(S) == CHOOSE x \in S : \A y \in S : x <= y

RECURSIVE Ascending(_)
Ascending(S) == IF S = {} THEN << >> ELSE <<MinOf(S)>> \o Ascending(S \ {MinOf(S)})

\* .sort((a, b) => (a.rank ?? 1) - (b.rank ?? 1)): stable, ascending
SortByRank(s) ==
    LET keys == Ascending({s[i].rank : i \in DOMAIN s})
        Group(v) == SelectSeq(s, LAMBDA r : r.rank = v)
        F[k \in 0..Len(keys)] == IF k = 0 THEN << >> ELSE F[k - 1] \o Group(keys[k])
    IN  F[Len(keys)]

\* .sort((a, b) => (a.score ?? 1) - (b.score ?? 1)): stable, ascending
SortByScore(s) ==
    LET keys == Ascending({s[i].score : i \in DOMAIN s})
        Group(v) == SelectSeq(s, LAMBDA r : r.score = v)
        F[k \in 0..Len(keys)] == IF k = 0 THEN << >> ELSE F[k - 1] \o Group(keys[k])
    IN  F[Len(keys)]

\* fault: the slice keeps one entry too many
SliceOneMore(s, n) == SubSeq(s, 1, Min(Len(s), n + 1))

\* .slice(0, n)
Slice(s, n) == SubSeq(s, 1, Min(Len(s), n))

rank(results, query, t) ==
    LET q == toLowerCase(query)
        mapped == [i \in 1..Len(results) |-> WithRank(results[i], RankOf(results[i], q, t))]
    IN  Slice(SortByRank(mapped), SliceLimit)

----------------------------------------------------------------------------
(* Inputs of the pure-function harness *)

Queries == {<< >>, <<"a">>, <<"A", "b">>}

Rec(source, id, title, modified, score) ==
    [id |-> id, title |-> title, source |-> source, account |-> <<"A">>,
     modified |-> modified, lastModified |-> 0, size |-> 1, score |-> score]

\* records that differ in source, id, title and modified: the dedupe cases
DedupeRecs ==
    { Rec(s, i, t, m, NoScore) :
        s \in {<<"s">>, <<"s", ":">>},
        i \in {<< >>, <<"x">>, <<":", "x">>},
        t \in {<<"a">>, <<"b">>},
        m \in {0, Now0 - Year} }

\* records that differ in title, modified and score: the rank cases
RankRecs ==
    { Rec(<<"local">>, <<"x">>, t, m, sc) :
        t \in {<<"A">>, <<"b", "a">>, <<"b">>, <<"a", "B">>},
        m \in {0, Now0, Now0 - Year, Now0 - 10 * Year, Now0 + 20 * Year},
        sc \in {NoScore, 0, 4} }

ListsOf(S) == UNION { [1..n -> S] : n \in 0..MaxLen }

FnInputs == ListsOf(DedupeRecs) \cup ListsOf(RankRecs)

Idle ==
    /\ op = "none"
    /\ arg = << >>
    /\ ret = << >>
    /\ now = Now0
    /\ ticks = 0

CallDedupe ==
    /\ op = "none"
    /\ \E R \in FnInputs :
        /\ arg' = [results |-> R]
        /\ ret' = dedupe(R)
    /\ op' = "dedupe"
    /\ UNCHANGED <<now, ticks, durable>>

CallRank ==
    /\ op = "none"
    /\ \E R \in FnInputs, q \in Queries :
        /\ arg' = [results |-> R, query |-> q]
        /\ ret' = rank(R, q, now)
    /\ op' = "rank"
    /\ UNCHANGED <<now, ticks, durable>>

----------------------------------------------------------------------------
(* tokenStore.js *)

Providers == {"google", "microsoft"}
Aliases == {"A", "B"}
Keys == Providers \X Aliases

\* key(provider, alias): `${provider}:${alias}`, kept as the pair
key(provider, alias) == <<provider, alias>>

\* a token record as JSON: "" and 0 stand for an absent (undefined) field
TokenRec(accessToken, refreshToken, expiresAt, scopes, access_token, refresh_token, expires_at, expiry_date, scope) ==
    [accessToken |-> accessToken, refreshToken |-> refreshToken,
     expiresAt |-> expiresAt, scopes |-> scopes,
     access_token |-> access_token, refresh_token |-> refresh_token,
     expires_at |-> expires_at, expiry_date |-> expiry_date, scope |-> scope]

\* a || b on strings and on numbers
OrStr(a, b) == IF a # "" THEN a ELSE b
OrNum(a, b) == IF a # 0 THEN a ELSE b

\* keychainStore.get: the stored JSON renamed to snake_case fields
keychainStoreGet(kc, k, keytarOk) ==
    IF ~keytarOk \/ kc[k] = << >> THEN << >>
    ELSE LET tokenData == kc[k][1]
         IN  <<TokenRec("", "", 0, "",
                        OrStr(tokenData.access_token, tokenData.accessToken),
                        OrStr(tokenData.refresh_token, tokenData.refreshToken),
                        OrNum(tokenData.expires_at, tokenData.expiresAt),
                        0, tokenData.scope)>>

\* getTokens of tokenStore.js (store = keychainStore): null on any failure
getTokensKeychain(kc, k, keytarOk) ==
    LET Checked(tokens) ==
            IF tokens = << >> THEN << >>
            ELSE IF tokens[1].access_token = "" /\ tokens[1].refresh_token = "" THEN << >>
            ELSE tokens
    IN  Checked(keychainStoreGet(kc, k, keytarOk))

\* getTokens of the plain keytar token store: the stored JSON as parsed
getTokensPlain(kc, k, keytarOk) ==
    IF ~keytarOk THEN << >> ELSE kc[k]

getTokens(impl, kc, k, keytarOk) ==
    IF impl = "keychain" THEN getTokensKeychain(kc, k, keytarOk)
    ELSE getTokensPlain(kc, k, keytarOk)

\* saveTokens: keytar.setPassword(SERVICE, key, JSON.stringify(tokens))
saveTokens(kc, k, tokens) == [kc EXCEPT ![k] = <<tokens>>]

----------------------------------------------------------------------------
(* connectors/microsoft.js: token manager *)

DefaultScopes == "default"   \* ['Files.Read.All', 'Sites.Read.All', 'Mail.Read']

\* what app.acquireTokenByRefreshToken can answer (expiresOn: 0 absent, 1 present)
TokenResponses ==
    [throws : BOOLEAN, accessToken : {"", "at2"}, refreshToken : {"", "rt2"},
     expiresOn : {0, 1}, scopes : {""}]

\* what the authorization-code exchange can answer
CodeResponses ==
    [throws : BOOLEAN, accessToken : {"", "at1"}, refreshToken : {"", "rt1"},
     expiresOn : {0, 1}, scopes : {""}]

NoResponse == [throws |-> TRUE, accessToken |-> "", refreshToken |-> "",
               expiresOn |-> 0, scopes |-> ""]

\* response.expiresOn?.getTime(): the provider grants one hour from t
ExpiresOn(resp, t) == IF resp.expiresOn = 0 THEN 0 ELSE t + DefaultLifetime

\* the environment of one getAccessToken call
TokenEnvs == [keytarOk : BOOLEAN, resp : TokenResponses, saveOk : BOOLEAN]

\* expiresAt > (now + buffer)
StillValid(expiresAt, t) == expiresAt > t + buffer

\* getAccessToken(account).  token = "" is the null return; path tells which
\* return statement was taken; refreshCalled tells whether
\* acquireTokenByRefreshToken was called; kc is the keychain afterwards.
getAccessToken(impl, kc, alias, t, env) ==
    LET none == [token |-> "", threw |-> FALSE, path |-> "null",
                 refreshCalled |-> FALSE, kc |-> kc]
        response == env.resp
        With(savedTokens) ==
            LET expiresAt == OrNum(savedTokens.expiresAt, 0)
                scopes == OrStr(savedTokens.scopes, DefaultScopes)
                newTokenData ==
                    TokenRec(response.accessToken,
                             OrStr(response.refreshToken, savedTokens.refreshToken),
                             OrNum(ExpiresOn(response, t), t + DefaultLifetime),
                             OrStr(response.scopes, scopes),
                             "", "", 0, 0, "")
            IN  IF savedTokens.accessToken # "" /\ StillValid(expiresAt, t)
                THEN [none EXCEPT !.token = savedTokens.accessToken, !.path = "stored"]
                ELSE IF savedTokens.refreshToken # ""
                THEN IF response.throws
                     THEN [none EXCEPT !.refreshCalled = TRUE]
                     ELSE IF response.accessToken # ""
                     THEN IF env.saveOk
                          THEN [none EXCEPT !.token = response.accessToken,
                                            !.path = "refreshed",
                                            !.refreshCalled = TRUE,
                                            !.kc = saveTokens(kc, key("microsoft", alias),
                                                              newTokenData)]
                          ELSE [none EXCEPT !.refreshCalled = TRUE]
                     ELSE [none EXCEPT !.refreshCalled = TRUE]
                ELSE none
        Saved(saved) == IF saved = << >> THEN none ELSE With(saved[1])
    IN  Saved(getTokens(impl, kc, key("microsoft", alias), env.keytarOk))

\* handleCallback of connectors/microsoft.js: the record it saves
MsCallbackRecord(tokenResponse, t) ==
    TokenRec(tokenResponse.accessToken, tokenResponse.refreshToken,
             ExpiresOn(tokenResponse, t),
             OrStr(tokenResponse.scopes, DefaultScopes), "", "", 0, 0, "")

----------------------------------------------------------------------------
(* auth/google.js: token manager *)

\* handleCallback of auth/google.js: the record it saves
GoogleCallbackRecord(tokens, t) ==
    TokenRec("", "", 0, "", tokens.accessToken, tokens.refreshToken, 0,
             ExpiresOn(tokens, t), "")

\* client.getAccessToken() of google-auth-library on credentials creds:
\* "ok" when the access token is used as is, "refreshed" when a refresh
\* exchange succeeded, "throws" otherwise.  The library refreshes when the
\* credentials carry an expiry_date within its 5 minute threshold.
ClientGetAccessToken(creds, t, resp) ==
    IF creds.access_token # "" /\ ~(creds.expiry_date # 0 /\ creds.expiry_date <= t + buffer)
    THEN "ok"
    ELSE IF creds.refresh_token = "" THEN "throws"
    ELSE IF resp.throws \/ resp.accessToken = "" THEN "throws"
    ELSE "refreshed"

\* getAuthorizedClient(cfg, alias).  client = "" is the null return, else the
\* access token the returned client carries: the stored one, or after a
\* refresh the new one, which the client holds in memory only (nothing in
\* auth/google.js saves it).
getAuthorizedClient(impl, kc, accounts, alias, t, env) ==
    LET none == [client |-> "", threw |-> FALSE, path |-> "null", refreshCalled |-> FALSE]
        With(creds) ==
            LET got == ClientGetAccessToken(creds, t, env.resp)
                called == creds.expiry_date # 0 /\ creds.expiry_date <= t + buffer
                          /\ creds.refresh_token # ""
            IN  IF got = "throws" THEN [none EXCEPT !.refreshCalled = called]
                ELSE [none EXCEPT !.client = IF got = "refreshed"
                                             THEN env.resp.accessToken
                                             ELSE creds.access_token,
                                  !.path = got, !.refreshCalled = called]
        Saved(tokens) ==
            IF tokens = << >> THEN none
            ELSE IF tokens[1].access_token = "" THEN none
            ELSE With(tokens[1])
    IN  IF \A i \in DOMAIN accounts : accounts[i] # alias
        THEN [none EXCEPT !.threw = TRUE, !.path = "throw"]
        ELSE Saved(getTokens(impl, kc, key("google", alias), env.keytarOk))

----------------------------------------------------------------------------
(* The token lifecycle: OAuth callbacks, the clock, token lookups *)

TokenAliases == {"A"}      \* the aliases the callbacks and lookups are run for
TickSizes == {55, 1}       \* minutes the clock advances in one step

Cfg0 ==
    [google |-> [enabled |-> TRUE, accounts |-> <<"A", "B">>],
     microsoft |-> [enabled |-> TRUE, accounts |-> <<"A", "B">>]]

InitStore ==
    /\ keychain = [k \in Keys |-> << >>]
    /\ tokenStore \in {"keychain", "plain"}
    /\ cfg = Cfg0

Init == Idle /\ InitStore

MsHandleCallback ==
    /\ op = "none"
    /\ \E alias \in TokenAliases, tokenResponse \in CodeResponses :
        /\ ~tokenResponse.throws
        /\ tokenResponse.accessToken # ""
        /\ keychain' = saveTokens(keychain, key("microsoft", alias),
                                   MsCallbackRecord(tokenResponse, now))
    /\ UNCHANGED <<op, arg, ret, now, ticks, tokenStore, cfg>>

GoogleHandleCallback ==
    /\ op = "none"
    /\ \E alias \in TokenAliases, tokens \in CodeResponses :
        /\ ~tokens.throws
        /\ tokens.accessToken # ""
        /\ keychain' = saveTokens(keychain, key("google", alias),
                                   GoogleCallbackRecord(tokens, now))
    /\ UNCHANGED <<op, arg, ret, now, ticks, tokenStore, cfg>>

Tick ==
    /\ op = "none"
    /\ ticks < MaxTicks
    /\ \E d \in TickSizes : now' = now + d
    /\ ticks' = ticks + 1
    /\ UNCHANGED <<op, arg, ret, durable>>

CallGetAccessToken ==
    /\ op = "none"
    /\ \E alias \in TokenAliases, env \in TokenEnvs :
        LET Returned(r) ==
                /\ arg' = [alias |-> alias,
                            stored |-> keychain[key("microsoft", alias)],
                            keytarOk |-> env.keytarOk,
                            resp |-> IF r.refreshCalled THEN env.resp ELSE NoResponse,
                            saveOk |-> IF r.refreshCalled THEN env.saveOk ELSE TRUE]
                /\ ret' = [token |-> r.token, threw |-> r.threw, path |-> r.path,
                            refreshCalled |-> r.refreshCalled]
                /\ keychain' = r.kc
        IN  Returned(getAccessToken(tokenStore, keychain, alias, now, env))
    /\ op' = "getAccessToken"
    /\ UNCHANGED <<now, ticks, tokenStore, cfg>>

CallGetAuthorizedClient ==
    /\ op = "none"
    /\ \E alias \in TokenAliases \cup {"Z"}, env \in TokenEnvs :
        LET Returned(r) ==
                /\ arg' = [alias |-> alias,
                            stored |-> IF alias \in Aliases
                                       THEN keychain[key("google", alias)] ELSE << >>,
                            keytarOk |-> env.keytarOk,
                            resp |-> IF r.refreshCalled THEN env.resp ELSE NoResponse,
                            saveOk |-> TRUE]
                /\ ret' = r
        IN  Returned(getAuthorizedClient(tokenStore, keychain, cfg.google.accounts,
                                         alias, now, env))
    /\ op' = "getAuthorizedClient"
    /\ UNCHANGED <<now, ticks, durable>>

\* tokenStore.getTokens(provider, alias) on the record the last saveTokens
\* of that key left in the keychain
CallGetTokens ==
    /\ op = "none"
    /\ \E provider \in Providers, alias \in TokenAliases, keytarOk \in BOOLEAN :
        /\ arg' = [provider |-> provider, alias |-> alias,
                    stored |-> keychain[key(provider, alias)], keytarOk |-> keytarOk]
        /\ ret' = getTokens(tokenStore, keychain, key(provider, alias), keytarOk)
    /\ op' = "getTokens"
    /\ UNCHANGED <<now, ticks, durable>>

\* tokens && tokens.access_token
\*        && (!tokens.expiry_date || tokens.expiry_date > Date.now())
hasValidToken(tokens, t) ==
    /\ tokens # << >>
    /\ tokens[1].access_token # ""
    /\ (tokens[1].expiry_date = 0 \/ tokens[1].expiry_date > t)

\* GET /api/accounts/token/:provider/:alias
TokenStatus ==
    /\ op = "none"
    /\ \E provider \in Providers, alias \in TokenAliases, keytarOk \in BOOLEAN :
        LET Answered(tokens) ==
                ret' = [status |-> 200, hasToken |-> hasValidToken(tokens, now),
                        expiresAt |-> IF tokens = << >> THEN 0 ELSE tokens[1].expiry_date]
        IN  /\ arg' = [provider |-> provider, alias |-> alias,
                        stored |-> keychain[key(provider, alias)], keytarOk |-> keytarOk]
            /\ Answered(getTokens(tokenStore, keychain, key(provider, alias), keytarOk))
    /\ op' = "tokenStatus"
    /\ UNCHANGED <<now, ticks, durable>>

Return ==
    /\ op # "none"
    /\ op' = "none"
    /\ arg' = << >>
    /\ ret' = << >>
    /\ UNCHANGED <<now, ticks, durable>>

Next ==
    \/ MsHandleCallback
    \/ GoogleHandleCallback
    \/ Tick
    \/ CallGetAccessToken
    \/ CallGetAuthorizedClient
    \/ CallGetTokens
    \/ TokenStatus
    \/ Return

Spec == Init /\ [][Next]_vars

----------------------------------------------------------------------------
(* Connectors.  The provider responses of one search are its "world": a    *)
(* list of placements (slot, item), a slot being one sub-query of one      *)
(* account, kept in slot order; the items of a slot, in order, are what    *)
(* that sub-query's API call answers.                                      *)

MaxItems == 2        \* bound: items the provider APIs answer in one search

SlotSeq ==
    << [kind |-> "local", alias |-> "this-mac"],
       [kind |-> "gdrive", alias |-> "A"], [kind |-> "gmail", alias |-> "A"],
       [kind |-> "gdrive", alias |-> "B"],
       [kind |-> "onedrive", alias |-> "A"], [kind |-> "sharepoint", alias |-> "A"],
       [kind |-> "outlook", alias |-> "A"],
       [kind |-> "onedrive", alias |-> "B"] >>

\* what an API item carries: provider id, name, modification time, Fuse score
Item(id, title, modified, score) ==
    [id |-> id, title |-> title, modified |-> modified, size |-> 1, score |-> score]

RemoteItems ==
    { Item(<<"x1">>, <<"A">>, Now0 - Year, NoScore),
      Item(<<"x1">>, <<"b", "a">>, Now0, NoScore),
      Item(<<"x2">>, <<"b", "a">>, Now0, NoScore) }

\* local files, with the score Fuse gives them when the query is not empty
LocalItems ==
    { Item(<<"x1">>, <<"A">>, Now0 - Year, 0),
      Item(<<"x2">>, <<"b">>, Now0, 4),
      Item(<<"x2">>, <<"b">>, 0, 1) }

Placements ==
    { [slot |-> i, item |-> it] : i \in 2..Len(SlotSeq), it \in RemoteItems }
    \cup { [slot |-> 1, item |-> it] : it \in LocalItems }

InSlotOrder(w) == \A i \in 1..(Len(w) - 1) : w[i].slot <= w[i + 1].slot

\* one sub-query answers an item once
OncePerSlot(w) ==
    \A i, j \in DOMAIN w : (i # j /\ w[i].slot = w[j].slot) => w[i].item.id # w[j].item.id

PlacementLists ==
    { w \in UNION { [1..n -> Placements] : n \in 0..MaxItems } :
        InSlotOrder(w) /\ OncePerSlot(w) }

\* the bulk of local files: n files with distinct paths
BulkFile(i) ==
    Item(<<"f", ToString(i)>>, <<"A">>,
         IF i % 3 = 0 THEN 0 ELSE IF i % 3 = 1 THEN Now0 ELSE Now0 - Year, i % 2)

Bulk(n) == [i \in 1..n |-> BulkFile(i)]

\* what can go wrong in one search: nothing, the file enumeration of the local
\* connector rejects (fast-glob, e.g. EACCES), or the keychain cannot be read
Faults == {"none", "local", "keytar"}

\* the order in which the three promises of a Promise.all settle
Orders == { o \in [1..3 -> 1..3] : \A i, j \in 1..3 : o[i] = o[j] => i = j }

Worlds ==
    { [bulk |-> 0, placed |-> w, fault |-> "none", order |-> <<1, 2, 3>>] :
        w \in PlacementLists }

\* worlds with more local files than the result cap, and at most one other item
LargeWorlds ==
    { [bulk |-> SliceLimit + BulkExtra, placed |-> w, fault |-> "none",
       order |-> <<1, 2, 3>>] :
        w \in { v \in PlacementLists : Len(v) <= 1 } }

\* the order in which the first n promises settle in world w
OrderOf(w, n) == SelectSeq(w.order, LAMBDA i : i <= n)

\* fault: the results are collected in the order the promises settle
PromiseAllArrival(tasks, order) == [k \in 1..Len(order) |-> tasks[order[k]]]

\* Promise.all: each promise's value is stored at the promise's own index when
\* it settles; the array is delivered once the last one has settled
PromiseAll(tasks, order) ==
    LET values[k \in 0..Len(order)] ==
            IF k = 0 THEN [i \in 1..Len(order) |-> << >>]
            ELSE [values[k - 1] EXCEPT ![order[k]] = tasks[order[k]]]
    IN  values[Len(order)]

\* what a connector does besides returning results: the token lookups it makes
\* and the provider API requests it issues, in program order
Lookup(provider, alias) == [what |-> "lookup", kind |-> provider, alias |-> alias]

ApiCall(kind, alias) == [what |-> "call", kind |-> kind, alias |-> alias]

\* the items slot (kind, alias) answers in world w
Answer(w, kind, alias) ==
    LET hits == SelectSeq(w.placed, LAMBDA p : SlotSeq[p.slot].kind = kind
                                               /\ SlotSeq[p.slot].alias = alias)
        listed == [i \in 1..Len(hits) |-> hits[i].item]
    IN  IF kind = "local" THEN Bulk(w.bulk) \o listed ELSE listed

Result(id, title, source, account, modified, lastModified, size, score) ==
    [id |-> id, title |-> title, source |-> source, account |-> account,
     modified |-> modified, lastModified |-> lastModified, size |-> size, score |-> score]

\* connectors/local.js searchLocalByName: the listing for an empty name,
\* else the Fuse matches with their score, ascending by score
searchLocalByName(name, w) ==
    LET File(f) == Result(<<"local", ":">> \o f.id, f.title, <<"local">>,
                          <<"this-mac">>, f.modified, 0, f.size, f.score)
        Files(found) == [i \in 1..Len(found) |-> File(found[i])]
        Listing(listing) == [i \in 1..Len(listing) |-> [listing[i] EXCEPT !.score = NoScore]]
        Search(files) == IF name = << >> THEN Listing(Slice(files, 2000))
                         ELSE SortByScore(files)
    IN  Search(Files(Answer(w, "local", "this-mac")))

\* connectors/local.js: fast-glob's promise rejects and nothing catches it
localRejects(w) == w.fault = "local"

\* the requests of the sub-queries of one account: Gmail, SharePoint and
\* Outlook return before any request when the query is empty
driveCalls(alias, name) == <<ApiCall("gdrive", alias)>>

gmailCalls(alias, name) == IF name = << >> THEN << >> ELSE <<ApiCall("gmail", alias)>>

oneDriveCalls(alias, query) == <<ApiCall("onedrive", alias)>>

sharePointCalls(alias, query) ==
    IF query = << >> THEN << >> ELSE <<ApiCall("sharepoint", alias)>>

outlookCalls(alias, query) ==
    IF query = << >> THEN << >> ELSE <<ApiCall("outlook", alias)>>

\* connectors/google.js searchDrive
searchDrive(alias, name, w) ==
    LET File(f) == Result(<<"gdrive", ":">> \o f.id, f.title, <<"google", "-drive">>,
                          <<alias>>, f.modified, 0, f.size, NoScore)
        Files(files) == [i \in 1..Len(files) |-> File(files[i])]
    IN  Files(Answer(w, "gdrive", alias))

\* connectors/google.js searchGmail: the attachments whose filename contains name
searchGmail(alias, name, w) ==
    LET Part(p) == Result(<<"gmail", ":">> \o p.id, p.title, <<"gmail-attachment">>,
                          <<alias>>, p.modified, 0, p.size, NoScore)
        Parts(parts) == [i \in 1..Len(parts) |-> Part(parts[i])]
    IN  IF name = << >> THEN << >>
        ELSE Parts(SelectSeq(Answer(w, "gmail", alias),
                             LAMBDA p : includes(toLowerCase(p.title), toLowerCase(name))))

\* the environment of the token lookups of one search: per key, a TokenEnvs
OkEnv == [keytarOk |-> TRUE, resp |-> NoResponse, saveOk |-> TRUE]

\* the environment of the token lookups of the search in world w
EnvOf(w) == [OkEnv EXCEPT !.keytarOk = (w.fault # "keytar")]

\* fault: the enabled flag of the provider's configuration is not looked at
disabledNever(providerCfg) == FALSE

\* if (!googleCfg?.enabled) return []; if (!msCfg?.enabled) return []
disabled(providerCfg) == ~providerCfg.enabled

\* fault: an account is searched whether or not it has a client
noClientNever(client) == FALSE

\* if (!client) continue; a throwing getAuthorizedClient lands in the catch
\* of the same loop body
noClient(client) == client.threw \/ client.client = ""

\* if (!token) { ...; continue; }
noToken(tok) == tok.token = ""

\* connectors/google.js searchGoogleByName; returns the results and the trace
\* of token lookups and API requests
RECURSIVE GoogleLoop(_, _, _, _, _, _, _, _, _)
GoogleLoop(accounts, i, out, trace, impl, kc, name, w, t) ==
    IF i > Len(accounts) THEN [results |-> out, trace |-> trace]
    ELSE LET acc == accounts[i]
             With(client, settled) ==
                 IF noClient(client)
                 THEN GoogleLoop(accounts, i + 1, out,
                                 trace \o <<Lookup("google", acc)>>,
                                 impl, kc, name, w, t)
                 ELSE GoogleLoop(accounts, i + 1, out \o settled[1] \o settled[2],
                                 trace \o <<Lookup("google", acc)>>
                                       \o driveCalls(acc, name) \o gmailCalls(acc, name),
                                 impl, kc, name, w, t)
         IN  With(getAuthorizedClient(impl, kc, accounts, acc, t, EnvOf(w)),
                  PromiseAll(<<searchDrive(acc, name, w), searchGmail(acc, name, w)>>,
                             OrderOf(w, 2)))

searchGoogleByName(name, googleCfg, impl, kc, w, t) ==
    IF disabled(googleCfg) \/ Len(googleCfg.accounts) = 0
    THEN [results |-> << >>, trace |-> << >>]
    ELSE GoogleLoop(googleCfg.accounts, 1, << >>, << >>, impl, kc, name, w, t)

\* connectors/microsoft.js searchOneDrive
searchOneDrive(alias, query, w) ==
    LET File(f) == Result(<<"onedrive", ":">> \o f.id, f.title, <<"microsoft", "-onedrive">>,
                          <<alias>>, 0, f.modified, f.size, NoScore)
        Files(results) == [i \in 1..Len(results) |-> File(results[i])]
    IN  Files(Answer(w, "onedrive", alias))

\* connectors/microsoft.js searchSharePoint
searchSharePoint(alias, query, w) ==
    LET Hit(h) == Result(<<"sharepoint", ":">> \o h.id, h.title,
                         <<"microsoft", "-sharepoint">>, <<alias>>, 0, h.modified,
                         h.size, NoScore)
        Hits(hits) == [i \in 1..Len(hits) |-> Hit(hits[i])]
    IN  IF query = << >> THEN << >> ELSE Hits(Answer(w, "sharepoint", alias))

\* connectors/microsoft.js searchOutlook: the attachments whose name contains query
searchOutlook(alias, query, w) ==
    LET Attachment(a) == Result(<<"outlook", ":">> \o a.id, a.title,
                                <<"microsoft", "-outlook">>, <<alias>>, 0, a.modified,
                                a.size, NoScore)
        Matching(matching) == [i \in 1..Len(matching) |-> Attachment(matching[i])]
    IN  IF query = << >> THEN << >>
        ELSE Matching(SelectSeq(Answer(w, "outlook", alias),
                                LAMBDA a : includes(toLowerCase(a.title),
                                                    toLowerCase(query))))

\* Array.from(new Map(items.map(item => [item.id, item])).values()): one entry
\* per id, at the position of the id's first occurrence, holding its last item
UniqueById(items) ==
    LET first == SelectSeq([i \in 1..Len(items) |-> i],
                           LAMBDA i : \A j \in 1..(i - 1) : items[j].id # items[i].id)
        Last(id) == CHOOSE i \in DOMAIN items :
                        items[i].id = id /\ \A j \in (i + 1)..Len(items) : items[j].id # id
    IN  [n \in 1..Len(first) |-> items[Last(items[first[n]].id)]]

\* connectors/microsoft.js searchMicrosoftByName; returns the results and the
\* keychain as the token refreshes leave it
RECURSIVE MicrosoftLoop(_, _, _, _, _, _, _, _, _, _)
MicrosoftLoop(accounts, i, results, raw, trace, impl, kc, query, w, t) ==
    IF i > Len(accounts)
    THEN [results |-> UniqueById(results), raw |-> raw, trace |-> trace, kc |-> kc]
    ELSE LET account == accounts[i]
             Combined(settled) == settled[1] \o settled[2] \o settled[3]
             With(tok, combinedResults) ==
                 IF noToken(tok)
                 THEN MicrosoftLoop(accounts, i + 1, results, raw,
                                    trace \o <<Lookup("microsoft", account)>>,
                                    impl, tok.kc, query, w, t)
                 ELSE MicrosoftLoop(accounts, i + 1, results \o UniqueById(combinedResults),
                                    raw \o combinedResults,
                                    trace \o <<Lookup("microsoft", account)>>
                                          \o oneDriveCalls(account, query)
                                          \o sharePointCalls(account, query)
                                          \o outlookCalls(account, query),
                                    impl, tok.kc, query, w, t)
         IN  With(getAccessToken(impl, kc, account, t, EnvOf(w)),
                  Combined(PromiseAll(<<searchOneDrive(account, query, w),
                                        searchSharePoint(account, query, w),
                                        searchOutlook(account, query, w)>>,
                                      OrderOf(w, 3))))

\* raw is every result the sub-queries answered, in account order and, within
\* an account, in sub-query order, before any de-duplication
searchMicrosoftByName(name, msCfg, impl, kc, w, t) ==
    IF disabled(msCfg) \/ Len(msCfg.accounts) = 0
    THEN [results |-> << >>, raw |-> << >>, trace |-> << >>, kc |-> kc]
    ELSE MicrosoftLoop(msCfg.accounts, 1, << >>, << >>, << >>, impl, kc, name, w, t)

----------------------------------------------------------------------------
(* src/search/unified.js unifiedSearchByName *)

Contains(list, x) == \E i \in DOMAIN list : list[i] = x

\* fault: the exact source filter is missing (only the provider gating remains)
FilteredByAccountOnly(all, includeSources, includeAccounts) ==
    IF Len(includeAccounts) # 0
    THEN SelectSeq(all, LAMBDA r : r.account # << >>
                                   /\ Contains(includeAccounts, r.account))
    ELSE all

\* the list handed to dedupe: the concatenation, then the two filters
Filtered(all, includeSources, includeAccounts) ==
    LET byAccount ==
            IF Len(includeAccounts) # 0
            THEN SelectSeq(all, LAMBDA r : r.account # << >>
                                           /\ Contains(includeAccounts, r.account))
            ELSE all
    IN  IF Len(includeSources) # 0
        THEN SelectSeq(byAccount, LAMBDA r : r.source # << >>
                                             /\ Contains(includeSources, r.source))
        ELSE byAccount

\* returns out (the returned list), all (the concatenation of the three
\* provider lists), produced (the same with the Microsoft sub-query answers
\* as they were before the connector's own de-duplication), the keychain,
\* the trace of the connectors' lookups and requests, and threw: the promise
\* rejected (Promise.all rejects as soon as one of its promises does)
unifiedSearchByName(name, c, includeSources, includeAccounts, impl, kc, w, t) ==
    LET wantsLocal == Len(includeSources) = 0 \/ Contains(includeSources, <<"local">>)
        wantsGoogle == Len(includeSources) = 0
                       \/ \E i \in DOMAIN includeSources :
                              \/ startsWith(includeSources[i], <<"google">>)
                              \/ includeSources[i] = <<"gmail-attachment">>
        wantsMicrosoft == Len(includeSources) = 0
                          \/ \E i \in DOMAIN includeSources :
                                 startsWith(includeSources[i], <<"microsoft">>)
        Finish(all, produced, kcAfter, trace) ==
            [all |-> all, produced |-> produced,
             out |-> rank(dedupe(Filtered(all, includeSources, includeAccounts)), name, t),
             kc |-> kcAfter, trace |-> trace, threw |-> FALSE]
        Merge(settled, google, ms) ==
            IF wantsLocal /\ localRejects(w)
            THEN [all |-> << >>, produced |-> << >>, out |-> << >>, kc |-> ms.kc,
                  trace |-> google.trace \o ms.trace, threw |-> TRUE]
            ELSE Finish(settled[1] \o settled[2] \o settled[3],
                        settled[1] \o settled[2] \o ms.raw, ms.kc,
                        google.trace \o ms.trace)
        Tasks(local, google, ms) ==
            Merge(PromiseAll(<<local, google.results, ms.results>>, OrderOf(w, 3)),
                  google, ms)
    IN  Tasks(IF wantsLocal THEN searchLocalByName(name, w) ELSE << >>,
              IF wantsGoogle
              THEN searchGoogleByName(name, c.google, impl, kc, w, t)
              ELSE [results |-> << >>, trace |-> << >>],
              IF wantsMicrosoft
              THEN searchMicrosoftByName(name, c.microsoft, impl, kc, w, t)
              ELSE [results |-> << >>, raw |-> << >>, trace |-> << >>, kc |-> kc])

----------------------------------------------------------------------------
(* The aggregator: searches over connected accounts *)

SearchNames == {<< >>, <<"a">>}

SourceFilters ==
    { << >>,
      << <<"local">> >>,
      << <<"google">> >>,
      << <<"google", "-drive">> >>,
      << <<"microsoft", "-onedrive">> >>,
      << <<"gmail-attachment">>, <<"microsoft", "-onedrive">> >> }

AccountFilters == { << >>, << <<"A">> >>, << <<"B">> >> }

\* every account connected: the records the OAuth callbacks saved at Now0
ConnectedKeychain ==
    LET granted == [throws |-> FALSE, accessToken |-> "at1", refreshToken |-> "rt1",
                    expiresOn |-> 1, scopes |-> ""]
    IN  [k \in Keys |-> IF k[1] = "microsoft"
                         THEN <<MsCallbackRecord(granted, Now0)>>
                         ELSE <<GoogleCallbackRecord(granted, Now0)>>]

InitSearch ==
    /\ Idle
    /\ keychain = ConnectedKeychain
    /\ tokenStore \in {"keychain", "plain"}
    /\ cfg = Cfg0

\* one call of unifiedSearchByName on world w
SearchOn(w, name, includeSources, includeAccounts) ==
    LET Returned(r) ==
            /\ arg' = [name |-> name, includeSources |-> includeSources,
                        includeAccounts |-> includeAccounts, world |-> w,
                        merged |-> r.all, produced |-> r.produced, trace |-> r.trace]
            /\ ret' = r.out
            /\ keychain' = r.kc
            /\ op' = IF r.threw THEN "searchRejected" ELSE "search"
            /\ UNCHANGED <<now, ticks, tokenStore, cfg>>
    IN  Returned(unifiedSearchByName(name, cfg, includeSources, includeAccounts,
                                     tokenStore, keychain, w, now))

Search ==
    /\ op = "none"
    /\ \E w \in Worlds, name \in SearchNames,
          includeSources \in SourceFilters, includeAccounts \in AccountFilters :
            SearchOn(w, name, includeSources, includeAccounts)

SearchLarge ==
    /\ op = "none"
    /\ \E w \in LargeWorlds, name \in SearchNames,
          includeSources \in SourceFilters, includeAccounts \in AccountFilters :
            SearchOn(w, name, includeSources, includeAccounts)

NextSearch == Search \/ SearchLarge \/ CallDedupe

SpecSearch == InitSearch /\ [][NextSearch]_vars

----------------------------------------------------------------------------
(* The aggregator when something is off: an account without tokens, a      *)
(* disabled provider, a failing local enumeration, an unreadable keychain, *)
(* and every order in which the concurrent promises settle.                *)

\* the keychain with the record of (provider, alias) missing
Disconnected(provider, alias) ==
    [ConnectedKeychain EXCEPT ![key(provider, alias)] = << >>]

\* config.providers with one provider switched off
Disabled(provider) ==
    IF provider = "google" THEN [Cfg0 EXCEPT !.google.enabled = FALSE]
    ELSE [Cfg0 EXCEPT !.microsoft.enabled = FALSE]

Setups ==
    { [kc |-> ConnectedKeychain, cfg |-> Cfg0],
      [kc |-> Disconnected("google", "A"), cfg |-> Cfg0],
      [kc |-> Disconnected("microsoft", "A"), cfg |-> Cfg0],
      [kc |-> ConnectedKeychain, cfg |-> Disabled("google")],
      [kc |-> ConnectedKeychain, cfg |-> Disabled("microsoft")] }

InitProviders ==
    /\ Idle
    /\ tokenStore \in {"keychain", "plain"}
    /\ \E s \in Setups : keychain = s.kc /\ cfg = s.cfg

\* worlds of MaxItems answers of the same provider id, with a fault or with
\* the promises settling in another order
ProviderWorlds ==
    { [bulk |-> 0, placed |-> v, fault |-> f, order |-> o] :
        v \in { u \in PlacementLists :
                    Len(u) = MaxItems /\ \A i \in DOMAIN u : u[i].item.id = <<"x1">> },
        f \in Faults, o \in Orders }

\* a search with filters when nothing is off, without filters otherwise
SearchProviders ==
    /\ op = "none"
    /\ \E w \in ProviderWorlds, name \in SearchNames,
          includeSources \in SourceFilters, includeAccounts \in AccountFilters :
            /\ \/ w.fault = "none" /\ w.order = <<1, 2, 3>>
               \/ /\ includeSources = << >> /\ includeAccounts = << >>
                  /\ w.fault = "none" \/ w.order = <<1, 2, 3>>
            /\ SearchOn(w, name, includeSources, includeAccounts)

\* server.js holds two servers, each with a GET /api/search route
Handlers == {"first", "second"}

\* the accounts query parameter after split(','), trim and filter(Boolean)
AccountQueries ==
    { << >>, << <<"A">> >>, << <<"google", ":", "A">> >>, << <<"microsoft", ":", "B">> >> }

\* acc.split(':')
split(acc) ==
    LET cuts == <<0>> \o SelectSeq([i \in 1..Len(acc) |-> i], LAMBDA i : acc[i] = ":")
                     \o <<Len(acc) + 1>>
    IN  [k \in 1..(Len(cuts) - 1) |-> SubSeq(acc, cuts[k] + 1, cuts[k + 1] - 1)]

\* parts.length > 1 ? parts[1] : acc
accountAlias(acc) ==
    LET Alias(parts) == IF Len(parts) > 1 THEN parts[2] ELSE acc
    IN  Alias(split(acc))

\* the includeAccounts option the route of handler passes to the search
includeAccountsOf(handler, accountsFilter) ==
    IF handler = "first" THEN accountsFilter
    ELSE [i \in 1..Len(accountsFilter) |-> accountAlias(accountsFilter[i])]

\* GET /api/search?name=..&accounts=..: 200 with the results, or 500 when
\* the search rejects
ApiSearch ==
    /\ op = "none"
    /\ \E w \in ProviderWorlds, name \in SearchNames, handler \in Handlers,
          accountsFilter \in AccountQueries :
            LET Answered(r) ==
                    /\ arg' = [name |-> name, handler |-> handler,
                                accountsFilter |-> accountsFilter, world |-> w]
                    /\ ret' = IF r.threw THEN [status |-> 500, results |-> << >>]
                               ELSE [status |-> 200, results |-> r.out]
                    /\ keychain' = r.kc
            IN  /\ w.order = <<1, 2, 3>> /\ w.fault \in {"none", "local"}
                /\ Answered(unifiedSearchByName(name, cfg, << >>,
                                                includeAccountsOf(handler, accountsFilter),
                                                tokenStore, keychain, w, now))
    /\ op' = "apiSearch"
    /\ UNCHANGED <<now, ticks, tokenStore, cfg>>

NextProviders == SearchProviders \/ ApiSearch

SpecProviders == InitProviders /\ [][NextProviders]_vars

----------------------------------------------------------------------------
(* One search as a process: the provider tasks run concurrently, each       *)
(* connector takes its accounts one after another, and the requests of one  *)
(* account are awaited together.  A request is an await on fetch (node-fetch)*)
(* or on a googleapis call; none of them is given a timeout, a signal or a  *)
(* race against a timer, so an await ends only when the provider answers.   *)

NetProviders == {"google", "microsoft"}

KindsOf(provider) ==
    IF provider = "google" THEN {"gdrive", "gmail"}
    ELSE {"onedrive", "sharepoint", "outlook"}

AccountsIn(c, provider) ==
    IF provider = "google" THEN c.google.accounts ELSE c.microsoft.accounts

\* the requests the connector of provider issues for its i-th account
RequestsOf(trace, c, provider, i) ==
    { trace[k] : k \in { j \in DOMAIN trace :
                            /\ trace[j].what = "call"
                            /\ trace[j].kind \in KindsOf(provider)
                            /\ trace[j].alias = AccountsIn(c, provider)[i] } }

\* every request a search can issue, and the sets of them that never get an
\* answer (an unreachable provider endpoint)
AllRequests ==
    { ApiCall(SlotSeq[i].kind, SlotSeq[i].alias) : i \in 2..Len(SlotSeq) }

Silences == { {} } \cup { {r} : r \in AllRequests }

NetWorlds ==
    { [bulk |-> 0, placed |-> v, fault |-> "none", order |-> <<1, 2, 3>>] :
        v \in { u \in PlacementLists : Len(u) = 1 } }

InitNet ==
    /\ Idle
    /\ keychain = ConnectedKeychain
    /\ tokenStore \in {"keychain", "plain"}
    /\ cfg = Cfg0

\* unifiedSearchByName is called: the three tasks start, each connector
\* issues the requests of its first account.  What the search returns once
\* every request is answered is fixed by the world; it is kept in result.
StartSearch ==
    /\ op = "none"
    /\ \E w \in NetWorlds, name \in SearchNames, silent \in Silences :
          LET Started(r) ==
                  arg' = [name |-> name, world |-> w, silent |-> silent,
                          trace |-> r.trace, result |-> r,
                          at |-> [p \in NetProviders |-> 1],
                          pending |-> UNION { RequestsOf(r.trace, cfg, p, 1) :
                                                p \in NetProviders }]
          IN  Started(unifiedSearchByName(name, cfg, << >>, << >>, tokenStore,
                                          keychain, w, now))
    /\ op' = "searching"
    /\ UNCHANGED <<ret, now, ticks, keychain, tokenStore, cfg>>

\* a provider answers a request (a response, an error status or a network
\* error): the await ends, the sub-query returns its list or []
Respond ==
    /\ op = "searching"
    /\ \E r \in arg.pending \ arg.silent :
          arg' = [arg EXCEPT !.pending = @ \ {r}]
    /\ UNCHANGED <<op, ret, now, ticks, keychain, tokenStore, cfg>>

\* the Promise.all of the current account of a connector has settled: the
\* loop goes on to the next account and issues its requests
NextAccount(provider) ==
    /\ op = "searching"
    /\ arg.at[provider] <= Len(AccountsIn(cfg, provider))
    /\ arg.pending \cap RequestsOf(arg.trace, cfg, provider, arg.at[provider]) = {}
    /\ arg' = [arg EXCEPT
                  !.at[provider] = @ + 1,
                  !.pending = @ \cup
                      IF arg.at[provider] < Len(AccountsIn(cfg, provider))
                      THEN RequestsOf(arg.trace, cfg, provider, arg.at[provider] + 1)
                      ELSE {}]
    /\ UNCHANGED <<op, ret, now, ticks, keychain, tokenStore, cfg>>

\* Promise.all(tasks) has settled: filter, dedupe, rank, return
Complete ==
    /\ op = "searching"
    /\ \A p \in NetProviders : arg.at[p] > Len(AccountsIn(cfg, p))
    /\ arg' = [name |-> arg.name, includeSources |-> << >>,
                includeAccounts |-> << >>, world |-> arg.world,
                merged |-> arg.result.all, produced |-> arg.result.produced,
                trace |-> arg.trace]
    /\ ret' = arg.result.out
    /\ keychain' = arg.result.kc
    /\ op' = IF arg.result.threw THEN "searchRejected" ELSE "search"
    /\ UNCHANGED <<now, ticks, tokenStore, cfg>>

NextNet ==
    \/ StartSearch
    \/ Respond
    \/ \E p \in NetProviders : NextAccount(p)
    \/ Complete

\* the event loop runs every continuation that is ready, and a provider that
\* is reachable answers; nothing else is assumed
SpecNet ==
    /\ InitNet /\ [][NextNet]_vars
    /\ WF_vars(Respond)
    /\ \A p \in NetProviders : WF_vars(NextAccount(p))
    /\ WF_vars(Complete)

----------------------------------------------------------------------------
(* Account management.  The repository holds three implementations of the  *)
(* account routes: the first server of server.js (accounts in the config   *)
(* file, written through saveConfig), the second server of server.js       *)
(* (accounts in the environment, providers always enabled), and the        *)
(* accounts router (the same without any token handling).  Which one is    *)
(* deployed is fixed for a run and kept in cfg.server.                     *)

Servers == {"first", "second", "router"}

InitAccounts ==
    /\ Idle
    /\ keychain = ConnectedKeychain
    /\ tokenStore \in {"keychain", "plain"}
    /\ \E v \in Servers :
          cfg = [google |-> Cfg0.google, microsoft |-> Cfg0.microsoft, server |-> v]

Configured(c, provider, alias) ==
    \E i \in DOMAIN AccountsIn(c, provider) : AccountsIn(c, provider)[i] = alias

\* the configuration with the accounts, and the enabled flag, of provider set
WithAccounts(c, provider, accounts, enabled) ==
    IF provider = "google"
    THEN [c EXCEPT !.google = [enabled |-> enabled, accounts |-> accounts]]
    ELSE [c EXCEPT !.microsoft = [enabled |-> enabled, accounts |-> accounts]]

EnabledIn(c, provider) ==
    IF provider = "google" THEN c.google.enabled ELSE c.microsoft.enabled

\* deleteTokens: keytar.deletePassword(SERVICE, key)
deleteTokens(kc, k) == [kc EXCEPT ![k] = << >>]

\* the updater of POST /api/accounts/update and of POST /api/accounts: a new
\* alias is pushed; the provider entry is created, enabled, only when it
\* does not exist, and an existing entry keeps its enabled flag
added(c, provider, alias) ==
    IF Configured(c, provider, alias) THEN c
    ELSE WithAccounts(c, provider, Append(AccountsIn(c, provider), alias),
                      EnabledIn(c, provider))

\* POST /api/accounts/update (first server), POST /api/accounts (second
\* server, router)
UpdateAccount ==
    /\ op = "none"
    /\ \E provider \in Providers, alias \in Aliases :
        /\ arg' = [provider |-> provider, alias |-> alias, cfg |-> cfg,
                    keychain |-> keychain]
        /\ cfg' = added(cfg, provider, alias)
    /\ ret' = [status |-> 200]
    /\ op' = "updateAccount"
    /\ UNCHANGED <<now, ticks, keychain, tokenStore>>

\* accounts.splice(idx, 1); the first server disables a provider left with
\* no account, the other two have no enabled flag to change
removed(c, provider, alias) ==
    LET Left(accounts) ==
            WithAccounts(c, provider, accounts,
                         IF c.server = "first" /\ Len(accounts) = 0 THEN FALSE
                         ELSE EnabledIn(c, provider))
    IN  Left(SelectSeq(AccountsIn(c, provider), LAMBDA a : a # alias))

\* DELETE /api/accounts/:provider/:alias; deleteOk: keytar deletes without
\* an error
DeleteAccount ==
    /\ op = "none"
    /\ \E provider \in Providers, alias \in Aliases, deleteOk \in BOOLEAN :
        /\ arg' = [provider |-> provider, alias |-> alias, cfg |-> cfg,
                    keychain |-> keychain, deleteOk |-> deleteOk]
        /\ \/ /\ cfg.server = "first"
              /\ keychain' = IF deleteOk THEN deleteTokens(keychain, key(provider, alias))
                              ELSE keychain
              /\ IF Configured(cfg, provider, alias)
                 THEN cfg' = removed(cfg, provider, alias) /\ ret' = [status |-> 200]
                 ELSE cfg' = cfg /\ ret' = [status |-> 500]
           \/ /\ cfg.server = "second"
              /\ IF Configured(cfg, provider, alias)
                 THEN /\ cfg' = removed(cfg, provider, alias)
                      /\ IF deleteOk
                         THEN /\ keychain' = deleteTokens(keychain, key(provider, alias))
                              /\ ret' = [status |-> 200]
                         ELSE keychain' = keychain /\ ret' = [status |-> 500]
                 ELSE cfg' = cfg /\ keychain' = keychain /\ ret' = [status |-> 404]
           \/ /\ cfg.server = "router"
              /\ keychain' = keychain
              /\ IF Configured(cfg, provider, alias)
                 THEN cfg' = removed(cfg, provider, alias) /\ ret' = [status |-> 200]
                 ELSE cfg' = cfg /\ ret' = [status |-> 404]
    /\ op' = "deleteAccount"
    /\ UNCHANGED <<now, ticks, tokenStore>>

NextAccounts == UpdateAccount \/ DeleteAccount \/ Return

SpecAccounts == InitAccounts /\ [][NextAccounts]_vars

----------------------------------------------------------------------------
(* tokenStore.js: two store calls in flight at once *)

\* the two backing stores of tokenStore.js
Stores == {"fileStore", "keychainStore"}

\* the store the calls go to: the plain token store has keytar only
storeOf(impl, c) == IF impl = "plain" THEN "keychainStore" ELSE c.store

\* the record a save writes
SavedRec(alias) ==
    TokenRec("new" \o alias, "rt2", Now0 + DefaultLifetime, "", "", "", 0, 0, "")

\* the record the store holds before the calls
OldRec == TokenRec("at1", "rt1", Now0, "", "", "", 0, 0, "")

\* a call that has not started: data is the parsed TOKEN_FILE once read
StoreCall(kind, k) ==
    [kind |-> kind, key |-> k, tokens |-> SavedRec(k[2]), pc |-> "start", data |-> << >>]

\* keychain holds the entries of the store in use: of TOKEN_FILE for
\* fileStore, of the keychain for keychainStore
InitStoreCalls ==
    /\ Idle
    /\ keychain \in [Keys -> {<< >>, <<OldRec>>}]
    /\ tokenStore \in {"keychain", "plain"}
    /\ \E s \in Stores :
        cfg = [google |-> Cfg0.google, microsoft |-> Cfg0.microsoft, store |-> s]

\* saveTokens(A) is called while saveTokens(B) or deleteTokens(B) is in flight
StartStoreCalls ==
    /\ op = "none"
    /\ \E a \in Keys, b \in Keys, kind \in {"save", "delete"} :
        /\ a # b
        /\ arg' = [calls |-> <<StoreCall("save", a), StoreCall(kind, b)>>]
    /\ op' = "storeCalls"
    /\ ret' = << >>
    /\ UNCHANGED <<now, ticks, durable>>

\* fileStore.save / fileStore.delete up to the await of readFile:
\* data = JSON.parse(content)
ReadFile(i) ==
    /\ op = "storeCalls"
    /\ storeOf(tokenStore, cfg) = "fileStore"
    /\ arg.calls[i].pc = "start"
    /\ arg' = [arg EXCEPT !.calls[i].pc = "read", !.calls[i].data = keychain]
    /\ UNCHANGED <<op, ret, now, ticks, durable>>

\* what the call writes back: its own snapshot with its own key changed
fileData(call) ==
    IF call.kind = "save" THEN [call.data EXCEPT ![call.key] = <<call.tokens>>]
    ELSE [call.data EXCEPT ![call.key] = << >>]

\* the rest of fileStore.save / fileStore.delete: writeFile(TOKEN_FILE,
\* JSON.stringify(data)); delete writes only when its snapshot has the key
WriteFile(i) ==
    /\ op = "storeCalls"
    /\ arg.calls[i].pc = "read"
    /\ keychain' = IF arg.calls[i].kind = "delete"
                      /\ arg.calls[i].data[arg.calls[i].key] = << >>
                   THEN keychain
                   ELSE fileData(arg.calls[i])
    /\ arg' = [arg EXCEPT !.calls[i].pc = "done"]
    /\ UNCHANGED <<op, ret, now, ticks, tokenStore, cfg>>

\* keychainStore.save / keychainStore.delete: keytar.setPassword or
\* keytar.deletePassword of the one key
KeytarCall(i) ==
    /\ op = "storeCalls"
    /\ storeOf(tokenStore, cfg) = "keychainStore"
    /\ arg.calls[i].pc = "start"
    /\ keychain' = IF arg.calls[i].kind = "save"
                   THEN saveTokens(keychain, arg.calls[i].key, arg.calls[i].tokens)
                   ELSE deleteTokens(keychain, arg.calls[i].key)
    /\ arg' = [arg EXCEPT !.calls[i].pc = "done"]
    /\ UNCHANGED <<op, ret, now, ticks, tokenStore, cfg>>

\* both promises have resolved
StoreCallsDone ==
    /\ op = "storeCalls"
    /\ \A i \in DOMAIN arg.calls : arg.calls[i].pc = "done"
    /\ op' = "none"
    /\ arg' = << >>
    /\ UNCHANGED <<ret, now, ticks, durable>>

NextStoreCalls ==
    \/ StartStoreCalls
    \/ \E i \in 1..2 : ReadFile(i)
    \/ \E i \in 1..2 : WriteFile(i)
    \/ \E i \in 1..2 : KeytarCall(i)
    \/ StoreCallsDone

SpecStoreCalls == InitStoreCalls /\ [][NextStoreCalls]_vars

----------------------------------------------------------------------------
(* connectors/microsoft.js: getAccessToken of two searches in flight at once *)

\* a getAccessToken call that has not started: saved is what getTokens
\* answered, expired whether the call found a record it could not use as is
TokenCall == [pc |-> "start", saved |-> << >>, expired |-> FALSE, token |-> ""]

InitRefresh ==
    /\ Idle
    /\ keychain = ConnectedKeychain
    /\ tokenStore \in {"keychain", "plain"}
    /\ cfg = Cfg0

\* two searches reach getAccessToken(account) for the same account; sent
\* counts the calls of app.acquireTokenByRefreshToken
StartSearches ==
    /\ op = "none"
    /\ \E alias \in TokenAliases :
        arg' = [alias |-> alias, calls |-> <<TokenCall, TokenCall>>, sent |-> 0]
    /\ op' = "searches"
    /\ ret' = << >>
    /\ UNCHANGED <<now, ticks, durable>>

\* getAccessToken from the await of getTokens to its first return or to the
\* call of acquireTokenByRefreshToken
GetSaved(i) ==
    /\ op = "searches"
    /\ arg.calls[i].pc = "start"
    /\ \E keytarOk \in BOOLEAN :
        LET With(saved) ==
                IF saved = << >>
                THEN arg' = [arg EXCEPT !.calls[i].pc = "done"]
                ELSE IF saved[1].accessToken # ""
                        /\ StillValid(OrNum(saved[1].expiresAt, 0), now)
                THEN arg' = [arg EXCEPT !.calls[i].pc = "done",
                                        !.calls[i].saved = saved,
                                        !.calls[i].token = saved[1].accessToken]
                ELSE IF saved[1].refreshToken # ""
                THEN arg' = [arg EXCEPT !.calls[i].pc = "refreshing",
                                        !.calls[i].saved = saved,
                                        !.calls[i].expired = TRUE,
                                        !.sent = @ + 1]
                ELSE arg' = [arg EXCEPT !.calls[i].pc = "done",
                                        !.calls[i].saved = saved,
                                        !.calls[i].expired = TRUE]
        IN  With(getTokens(tokenStore, keychain, key("microsoft", arg.alias), keytarOk))
    /\ UNCHANGED <<op, ret, now, ticks, durable>>

\* the record getAccessToken saves after a refresh
newTokenData(savedTokens, response, t) ==
    TokenRec(response.accessToken,
             OrStr(response.refreshToken, savedTokens.refreshToken),
             OrNum(ExpiresOn(response, t), t + DefaultLifetime),
             OrStr(response.scopes, OrStr(savedTokens.scopes, DefaultScopes)),
             "", "", 0, 0, "")

\* getAccessToken from the answer of acquireTokenByRefreshToken to its return
RefreshAnswered(i) ==
    /\ op = "searches"
    /\ arg.calls[i].pc = "refreshing"
    /\ \E response \in TokenResponses, saveOk \in BOOLEAN :
        IF ~response.throws /\ response.accessToken # "" /\ saveOk
        THEN /\ keychain' = saveTokens(keychain, key("microsoft", arg.alias),
                                        newTokenData(arg.calls[i].saved[1], response, now))
             /\ arg' = [arg EXCEPT !.calls[i].pc = "done",
                                   !.calls[i].token = response.accessToken]
        ELSE /\ keychain' = keychain
             /\ arg' = [arg EXCEPT !.calls[i].pc = "done"]
    /\ UNCHANGED <<op, ret, now, ticks, tokenStore, cfg>>

\* both calls have returned
SearchesDone ==
    /\ op = "searches"
    /\ \A i \in DOMAIN arg.calls : arg.calls[i].pc = "done"
    /\ op' = "none"
    /\ arg' = << >>
    /\ UNCHANGED <<ret, now, ticks, durable>>

NextRefresh ==
    \/ Tick
    \/ StartSearches
    \/ \E i \in 1..2 : GetSaved(i)
    \/ \E i \in 1..2 : RefreshAnswered(i)
    \/ SearchesDone

SpecRefresh == InitRefresh /\ [][NextRefresh]_vars

NextFn == CallDedupe \/ CallRank

SpecFn == Init /\ [][NextFn]_vars

----------------------------------------------------------------------------
(* Properties *)

ResultFields == {"id", "title", "source", "account", "modified", "lastModified",
                 "size", "score"}

SamePair(a, b) == a.source = b.source /\ a.id = b.id

SameResult(a, b) == \A f \in ResultFields : a[f] = b[f]

NoDupPairs(list) ==
    Cardinality({<<list[i].source, list[i].id>> : i \in DOMAIN list}) = Len(list)

\* the list unifiedSearchByName hands to dedupe in the search that just ran
SearchFiltered == Filtered(arg.merged, arg.includeSources, arg.includeAccounts)

\* C1: dedupe(R) holds no two entries with equal (source, id) and
\* dedupe(dedupe(R)) = dedupe(R); the list a search returns holds no two
\* entries with equal (source, id).
C1_DedupeUniqueIdempotent ==
    /\ op = "dedupe" => NoDupPairs(ret) /\ dedupe(ret) = ret
    /\ op = "search" => NoDupPairs(ret)

\* a search whose filtered list held the same (source, id) twice
C1_Witness ==
    /\ op = "search"
    /\ ~NoDupPairs(SearchFiltered)
    /\ Len(ret) > 0

Range(list) == {list[i] : i \in DOMAIN list}

Unfiltered(request) == request.includeSources = << >> /\ request.includeAccounts = << >>

\* the first entry of list that carries the (source, id) of r
FirstWith(list, r) ==
    list[CHOOSE i \in DOMAIN list :
            SamePair(list[i], r) /\ \A j \in 1..(i - 1) : ~SamePair(list[j], r)]

\* C2: an item the sub-queries produced more than once appears exactly once
\* in the output of an unfiltered search, as the entry that was produced
\* first in the merge order (providers, then accounts, then sub-queries).
C2_FirstEncounteredWins ==
    (op = "search" /\ Unfiltered(arg)) =>
        /\ NoDupPairs(ret)
        /\ \A k \in DOMAIN ret : SameResult(ret[k], FirstWith(arg.produced, ret[k]))
        /\ Len(ret) < SliceLimit =>
               \A i \in DOMAIN arg.produced :
                   \E k \in DOMAIN ret : SamePair(ret[k], arg.produced[i])

\* C3: results with an empty id are keyed by title, size and modified: two
\* of them with the same source that differ in title, size or modified are
\* both retained by dedupe.
C3_EmptyIdFallbackKey ==
    op = "dedupe" =>
        \A i, j \in DOMAIN arg.results :
            LET a == arg.results[i]
                b == arg.results[j]
            IN  (/\ a.id = << >> /\ b.id = << >>
                 /\ a.source = b.source
                 /\ (a.title # b.title \/ a.size # b.size \/ a.modified # b.modified))
                => a \in Range(ret) /\ b \in Range(ret)

\* the de-duplicated results of the search that just ran, with their scores
SearchScored ==
    LET Scored(unique) ==
            [i \in 1..Len(unique) |->
                WithRank(unique[i], RankOf(unique[i], toLowerCase(arg.name), now))]
    IN  Scored(dedupe(SearchFiltered))

\* C4: a search returns at most 200 entries, in ascending order of composite
\* score, and every de-duplicated result left out scores at least as high as
\* every entry returned.
C4_AtMostLimitLowestAscending ==
    op = "search" =>
        LET Cut(scored) ==
                /\ Len(ret) = Min(Len(scored), SliceLimit)
                /\ Range(ret) \subseteq Range(scored)
                /\ \A d \in Range(scored) \ Range(ret) : d.rank >= ret[Len(ret)].rank
        IN  /\ Len(ret) <= SliceLimit
            /\ \A k \in 1..(Len(ret) - 1) : ret[k].rank <= ret[k + 1].rank
            /\ Cut(SearchScored)

\* a search with more than 200 distinct results, some of them left out
C4_Witness ==
    /\ op = "search"
    /\ Len(SearchScored) > SliceLimit
    /\ Len(ret) = SliceLimit
    /\ \E d \in Range(SearchScored) : d \notin Range(ret) /\ d.rank > ret[1].rank

TitleEquals(r, q) == toLowerCase(r.title) = q

TitleContains(r, q) == toLowerCase(r.title) # q /\ includes(toLowerCase(r.title), q)

\* C5: for a non-empty query every result whose title equals the query
\* (case-insensitively) comes before every result whose title only contains
\* it, whatever their modified timestamps and connector scores.
C5_ExactBeforeSubstring ==
    (op = "rank" /\ toLowerCase(arg.query) # << >>) =>
        \A i, j \in DOMAIN ret :
            (TitleEquals(ret[i], toLowerCase(arg.query))
             /\ TitleContains(ret[j], toLowerCase(arg.query))) => i < j

ConnectorScore(r) == IF r.score # NoScore THEN r.score ELSE ScoreDefault

C7_ResultsSatisfyFilters ==
    op = "search" =>
        \A k \in DOMAIN ret :
            /\ Len(arg.includeAccounts) # 0 => Contains(arg.includeAccounts, ret[k].account)
            /\ Len(arg.includeSources) # 0 => Contains(arg.includeSources, ret[k].source)

\* a search with both filters set that returned something, while the queried
\* providers also answered a result of another source and one of another account
C7_Witness ==
    /\ op = "search"
    /\ Len(arg.includeAccounts) # 0
    /\ Len(arg.includeSources) # 0
    /\ Len(ret) > 0
    /\ \E i \in DOMAIN arg.merged : ~Contains(arg.includeSources, arg.merged[i].source)
    /\ \E i \in DOMAIN arg.merged : ~Contains(arg.includeAccounts, arg.merged[i].account)

\* the same search as the one that just ran, run with no filters
SearchUnfiltered ==
    unifiedSearchByName(arg.name, cfg, << >>, << >>, tokenStore, keychain, arg.world, now)

\* C8 as stated: what a filtered search returns is a subset of what the same
\* search returns with no filters.
C8_FilteredSubsetOfUnfiltered ==
    op = "search" => Range(ret) \subseteq Range(SearchUnfiltered.out)

\* C8 amended: what a filtered search returns is a subset of what the same
\* search returns with no filters, provided the unfiltered merged list holds
\* at most 200 results and no (source, id) twice.
C8_FilteredSubsetWhenNoCapNoDuplicate ==
    op = "search" =>
        LET Sub(u) == (Len(u.all) <= SliceLimit /\ NoDupPairs(u.all))
                      => Range(ret) \subseteq Range(u.out)
        IN  Sub(SearchUnfiltered)

\* a filtered search that returned some, but not all, of the unfiltered output
C8_Witness ==
    /\ op = "search"
    /\ ~Unfiltered(arg)
    /\ Len(ret) > 0
    /\ LET Fewer(u) == /\ Len(u.all) <= SliceLimit
                       /\ NoDupPairs(u.all)
                       /\ Len(ret) < Len(u.out)
       IN  Fewer(SearchUnfiltered)

\* C9: getAccessToken on a stored record with an access token, a refresh
\* token and an expiresAt at most 5 minutes ahead does not return the stored
\* token but attempts a refresh; it returns the stored token, with no call to
\* the provider, only when expiresAt is more than 5 minutes ahead.
C9_RefreshInsideBuffer ==
    (op = "getAccessToken" /\ arg.keytarOk /\ arg.stored # << >>) =>
        LET stored == arg.stored[1]
        IN  /\ (/\ stored.accessToken # ""
                /\ stored.refreshToken # ""
                /\ stored.expiresAt # 0
                /\ stored.expiresAt <= now + buffer)
               => (ret.path # "stored" /\ ret.refreshCalled)
            /\ ret.path = "stored"
               => (stored.expiresAt > now + buffer /\ ~ret.refreshCalled)

\* a stored record whose expiry is known and has passed, as the callbacks of
\* the two providers write it
MsExpired(stored) == stored.expiresAt # 0 /\ stored.expiresAt <= now

GoogleExpired(stored) == stored.expiry_date # 0 /\ stored.expiry_date <= now

RefreshFails(resp) == resp.throws \/ resp.accessToken = ""

\* C10: the token lookup returns null and does not throw when nothing is
\* stored for the alias, when the stored token is expired and there is no
\* refresh token, and when the refresh exchange fails or answers no access
\* token; for getAccessToken and for getAuthorizedClient on a configured alias.
C10_NullNeverThrows ==
    /\ op = "getAccessToken" =>
        /\ ~ret.threw
        /\ arg.stored = << >> => ret.token = ""
        /\ (arg.stored # << >> /\ MsExpired(arg.stored[1])
            /\ arg.stored[1].refreshToken = "") => ret.token = ""
        /\ (arg.stored # << >> /\ MsExpired(arg.stored[1])
            /\ RefreshFails(arg.resp)) => ret.token = ""
    /\ (op = "getAuthorizedClient" /\ arg.alias \in Aliases) =>
        /\ ~ret.threw
        /\ arg.stored = << >> => ret.client = ""
        /\ (arg.stored # << >> /\ GoogleExpired(arg.stored[1])
            /\ arg.stored[1].refresh_token = "") => ret.client = ""
        /\ (arg.stored # << >> /\ GoogleExpired(arg.stored[1])
            /\ RefreshFails(arg.resp)) => ret.client = ""

\* C11: when the task of one provider rejects (the local enumeration fails),
\* unifiedSearchByName still resolves and returns what the other providers
\* answered: the search never ends rejected, and its result is the result of
\* the same search with the failing provider contributing an empty list.
SearchWithoutFault ==
    unifiedSearchByName(arg.name, cfg, arg.includeSources, arg.includeAccounts,
                        tokenStore, keychain, [arg.world EXCEPT !.fault = "none",
                                                                 !.placed = SelectSeq(arg.world.placed, LAMBDA p : p.slot # 1)],
                        now)

C11_ProviderFailureContained ==
    (op \in {"search", "searchRejected"} /\ localRejects(arg.world))
        => /\ op = "search"
           /\ ret = SearchWithoutFault.out

\* C12: an account whose token lookup yields no usable token gets no provider
\* API request and contributes no result, while every other account of the
\* same provider and of the other provider that has a token is queried and
\* what its sub-queries answer is in the merged list, as are the local files.
GoogleUsable(alias) ==
    LET Usable(client) == ~client.threw /\ client.client # ""
    IN  Usable(getAuthorizedClient(tokenStore, keychain, cfg.google.accounts, alias,
                                   now, EnvOf(arg.world)))

MicrosoftUsable(alias) ==
    getAccessToken(tokenStore, keychain, alias, now, EnvOf(arg.world)).token # ""

GoogleKinds == {"gdrive", "gmail"}
MicrosoftKinds == {"onedrive", "sharepoint", "outlook"}

FromGoogle(r) == startsWith(r.source, <<"google">>) \/ r.source = <<"gmail-attachment">>
FromMicrosoft(r) == startsWith(r.source, <<"microsoft">>)

Requested(kinds, alias) ==
    \E i \in DOMAIN arg.trace :
        arg.trace[i].what = "call" /\ arg.trace[i].kind \in kinds
        /\ arg.trace[i].alias = alias

AccountsOf(provider) == Range(provider.accounts)

C12_NoTokenNoCallOthersQueried ==
    (op = "search" /\ cfg.google.enabled /\ cfg.microsoft.enabled
     /\ arg.includeSources = << >>)
        => /\ \A a \in AccountsOf(cfg.google) :
                IF GoogleUsable(a)
                THEN /\ Range(driveCalls(a, arg.name) \o gmailCalls(a, arg.name))
                            \subseteq Range(arg.trace)
                     /\ Range(searchDrive(a, arg.name, arg.world)
                              \o searchGmail(a, arg.name, arg.world))
                            \subseteq Range(arg.merged)
                ELSE /\ ~Requested(GoogleKinds, a)
                     /\ \A r \in Range(arg.merged) : FromGoogle(r) => r.account # <<a>>
           /\ \A a \in AccountsOf(cfg.microsoft) :
                IF MicrosoftUsable(a)
                THEN /\ Range(oneDriveCalls(a, arg.name) \o sharePointCalls(a, arg.name)
                              \o outlookCalls(a, arg.name))
                            \subseteq Range(arg.trace)
                     /\ Range(searchOneDrive(a, arg.name, arg.world)
                              \o searchSharePoint(a, arg.name, arg.world)
                              \o searchOutlook(a, arg.name, arg.world))
                            \subseteq Range(arg.produced)
                ELSE /\ ~Requested(MicrosoftKinds, a)
                     /\ \A r \in Range(arg.produced) :
                            FromMicrosoft(r) => r.account # <<a>>
           /\ Range(searchLocalByName(arg.name, arg.world)) \subseteq Range(arg.merged)

\* Google account A has no stored tokens and the world answers a Drive file
\* for it; account B and a Microsoft account are queried and return results
C12_Witness ==
    /\ op = "search"
    /\ keychain[key("google", "A")] = << >>
    /\ Answer(arg.world, "gdrive", "A") # << >>
    /\ ~GoogleUsable("A") /\ GoogleUsable("B")
    /\ Requested(GoogleKinds, "B") /\ ~Requested(GoogleKinds, "A")
    /\ \E i \in DOMAIN ret : FromGoogle(ret[i]) /\ ret[i].account = <<"B">>

\* C13: when a provider's configuration has enabled = false, a search makes
\* no token lookup and no API request for that provider, neither the merged
\* list nor the returned list holds a result of that provider, whatever the
\* query and the filters, and the search does not fail because of it.
Touched(provider, kinds) ==
    \E i \in DOMAIN arg.trace :
        \/ arg.trace[i].what = "lookup" /\ arg.trace[i].kind = provider
        \/ arg.trace[i].what = "call" /\ arg.trace[i].kind \in kinds

C13_DisabledProviderSilent ==
    (op \in {"search", "searchRejected"})
        => /\ ~cfg.google.enabled
                => /\ ~Touched("google", GoogleKinds)
                   /\ \A r \in Range(arg.merged) \cup Range(ret) : ~FromGoogle(r)
           /\ ~cfg.microsoft.enabled
                => /\ ~Touched("microsoft", MicrosoftKinds)
                   /\ \A r \in Range(arg.produced) \cup Range(ret) : ~FromMicrosoft(r)
           /\ ((~cfg.google.enabled \/ ~cfg.microsoft.enabled) /\ ~localRejects(arg.world))
                => op = "search"

\* Microsoft is disabled, its account A has a record in the keychain and its
\* OneDrive would answer a file; the search returns Google results only
C13_Witness ==
    /\ op = "search"
    /\ ~cfg.microsoft.enabled
    /\ keychain[key("microsoft", "A")] # << >>
    /\ Answer(arg.world, "onedrive", "A") # << >>
    /\ arg.includeSources = << >>
    /\ \E i \in DOMAIN ret : FromGoogle(ret[i])

\* C14: when the keychain cannot be read while a search looks tokens up, the
\* search ends rejected (the caller gets the storage error) and does not
\* resolve with a result list as if the accounts were not connected.
TokensLookedUp == \E i \in DOMAIN arg.trace : arg.trace[i].what = "lookup"

C14_StoreErrorAbortsSearch ==
    (op \in {"search", "searchRejected"} /\ arg.world.fault = "keytar" /\ TokensLookedUp)
        => op = "searchRejected"

\* C15: after a successful silent refresh the keychain record of the account
\* holds the new access token and an expiry in the future, its refresh token
\* is the newly issued one, or the previous one when none was issued, and the
\* token handed to the caller is the new access token; for getAccessToken
\* (Microsoft) and for getAuthorizedClient (Google).
C15_RefreshPersisted ==
    /\ (op = "getAccessToken" /\ ret.path = "refreshed") =>
          LET record == keychain[key("microsoft", arg.alias)]
          IN  /\ record # << >>
              /\ record[1].accessToken = arg.resp.accessToken
              /\ record[1].expiresAt > now
              /\ record[1].refreshToken = OrStr(arg.resp.refreshToken,
                                                arg.stored[1].refreshToken)
              /\ ret.token = arg.resp.accessToken
    /\ (op = "getAuthorizedClient" /\ ret.path = "refreshed") =>
          LET record == keychain[key("google", arg.alias)]
          IN  /\ record # << >>
              /\ record[1].access_token = arg.resp.accessToken
              /\ record[1].expiry_date > now
              /\ record[1].refresh_token = OrStr(arg.resp.refreshToken,
                                                 arg.stored[1].refresh_token)
              /\ ret.client = arg.resp.accessToken

\* C16: for the same answers of the sub-queries, the list a search returns
\* (its members, the winner of each duplicate and the order) is the list it
\* returns when the promises settle in call order, whatever the order in which
\* the provider tasks and the sub-queries of an account settle.
SearchInCallOrder ==
    unifiedSearchByName(arg.name, cfg, arg.includeSources, arg.includeAccounts,
                        tokenStore, keychain, [arg.world EXCEPT !.order = <<1, 2, 3>>],
                        now)

C16_CompletionOrderIrrelevant ==
    op = "search" => ret = SearchInCallOrder.out

\* the Microsoft task settles first and the local one last, and the search
\* returns results of two different sources
C16_Witness ==
    /\ op = "search"
    /\ arg.world.order = <<3, 2, 1>>
    /\ \E i, j \in DOMAIN ret : ret[i].source # ret[j].source

\* C17: every search that was started completes, also when a request to a
\* provider never gets an answer.
C17_SearchCompletes == (op = "searching") ~> (op = "search")

\* C18: a search whose source filter names the provider family "google"
\* returns what the same search returns when the filter lists the provider's
\* fine-grained source tags, google-drive and gmail-attachment.
SearchByGoogleTags ==
    unifiedSearchByName(arg.name, cfg,
                        << <<"google", "-drive">>, <<"gmail-attachment">> >>,
                        arg.includeAccounts, tokenStore, keychain, arg.world, now)

C18_FamilyFilterAsTags ==
    (op = "search" /\ arg.includeSources = << <<"google">> >>)
        => ret = SearchByGoogleTags.out

\* C19: the HTTP search with an accounts entry written provider:alias answers
\* the results of the search whose account filter holds the bare alias.
SearchByBareAlias ==
    unifiedSearchByName(arg.name, cfg, << >>,
                        [i \in 1..Len(arg.accountsFilter) |->
                            Tail(Tail(arg.accountsFilter[i]))],
                        tokenStore, keychain, arg.world, now)

C19_ProviderAliasNormalized ==
    (/\ op = "apiSearch"
     /\ ret.status = 200
     /\ arg.accountsFilter # << >>
     /\ \A i \in DOMAIN arg.accountsFilter : Len(arg.accountsFilter[i]) = 3)
        => ret.results = SearchByBareAlias.out

\* C20: getTokens after saveTokens of a record returns a record with the
\* access token, refresh token, expiry and scopes that were saved, in the
\* fields the token manager of the provider reads: accessToken, refreshToken,
\* expiresAt and scopes for Microsoft, access_token, refresh_token and
\* expiry_date for Google.
C20_StoreRoundTrip ==
    (op = "getTokens" /\ arg.keytarOk /\ arg.stored # << >>) =>
        /\ ret # << >>
        /\ arg.provider = "microsoft" =>
              /\ ret[1].accessToken = arg.stored[1].accessToken
              /\ ret[1].refreshToken = arg.stored[1].refreshToken
              /\ ret[1].expiresAt = arg.stored[1].expiresAt
              /\ ret[1].scopes = arg.stored[1].scopes
        /\ arg.provider = "google" =>
              /\ ret[1].access_token = arg.stored[1].access_token
              /\ ret[1].refresh_token = arg.stored[1].refresh_token
              /\ ret[1].expiry_date = arg.stored[1].expiry_date

\* C26: the recency term rank adds to the score of a result lies between 0
\* and 0.10 (five years at 0.02 per year), whatever the modified timestamp of
\* the result, so that it stays below the 0.2 between two relevance tiers.
RecencyOf(r, q) == r.rank - TitleScore(r, q) * 5 * Year

C26_RecencyTermBounded ==
    op = "rank" =>
        \A k \in DOMAIN ret :
            /\ RecencyOf(ret[k], toLowerCase(arg.query)) >= 0
            /\ RecencyOf(ret[k], toLowerCase(arg.query)) <= MaxYears * Year

\* C29: for a non-empty query and two results with the same modified time, a
\* result whose title contains the query does not get a worse rank than one
\* whose title neither equals nor contains it, whatever the connector score
\* of the latter.
TitleUnrelated(r, q) == toLowerCase(r.title) # q /\ ~includes(toLowerCase(r.title), q)

C29_SubstringBeforeUnrelated ==
    (op = "rank" /\ toLowerCase(arg.query) # << >>) =>
        \A i, j \in DOMAIN ret :
            (/\ ret[i].modified = ret[j].modified
             /\ TitleContains(ret[i], toLowerCase(arg.query))
             /\ TitleUnrelated(ret[j], toLowerCase(arg.query)))
                => ret[i].rank <= ret[j].rank

\* C27: once the Microsoft callback has stored tokens whose expiry is more
\* than 5 minutes ahead, getAccessToken for the alias returns the stored
\* access token and does not call the provider.
C27_FreshTokenReturnedAsStored ==
    (/\ op = "getAccessToken"
     /\ arg.keytarOk
     /\ arg.stored # << >>
     /\ arg.stored[1].accessToken # ""
     /\ arg.stored[1].expiresAt > now + buffer)
        => /\ ret.token = arg.stored[1].accessToken
           /\ ~ret.refreshCalled

\* C25: a stored record with an access token and no expiry is treated as
\* expired: getAccessToken does not return the stored token, and the token
\* status endpoint does not report a valid token.
NoExpiry(record) ==
    record.expiresAt = 0 /\ record.expires_at = 0 /\ record.expiry_date = 0

C25_UnknownExpiryIsExpired ==
    /\ (/\ op = "getAccessToken"
        /\ arg.stored # << >>
        /\ arg.stored[1].accessToken # ""
        /\ NoExpiry(arg.stored[1]))
           => ret.path # "stored"
    /\ (/\ op = "tokenStatus"
        /\ arg.keytarOk
        /\ arg.stored # << >>
        /\ OrStr(arg.stored[1].access_token, arg.stored[1].accessToken) # ""
        /\ NoExpiry(arg.stored[1]))
           => ~ret.hasToken

\* C28: every item the sub-queries of Microsoft account A answered has an
\* entry in the result of a search restricted to includeAccounts = [A] that
\* returns fewer than 200 results, also when account B answered the same id.
C28_AccountItemsFound ==
    (/\ op = "search"
     /\ arg.includeAccounts = << <<"A">> >>
     /\ arg.includeSources = << >>
     /\ Len(ret) < SliceLimit)
        => \A r \in Range(arg.produced) :
               (FromMicrosoft(r) /\ r.account = <<"A">>)
                   => \E k \in DOMAIN ret : ret[k].id = r.id

\* C22: whenever the delete-account operation has removed the account from
\* the configuration, no token record of that (provider, alias) is left in
\* the keychain, also when deleting the tokens failed.
C22_AccountDeletedWithTokens ==
    (/\ op = "deleteAccount"
     /\ Configured(arg.cfg, arg.provider, arg.alias)
     /\ ~Configured(cfg, arg.provider, arg.alias))
        => keychain[key(arg.provider, arg.alias)] = << >>

\* C23: deleting an alias that is not configured answers 404 and changes
\* neither the configured accounts nor the stored tokens.
C23_DeleteUnknownIs404 ==
    (op = "deleteAccount" /\ ~Configured(arg.cfg, arg.provider, arg.alias))
        => /\ ret.status = 404
           /\ cfg = arg.cfg
           /\ keychain = arg.keychain

\* C30: a provider with at least one configured account is enabled, after
\* any sequence of account additions and deletions; an account that was
\* just added is looked up by the next search of its provider.
LookedUp(provider, alias) ==
    LET Traced(trace) == \E i \in DOMAIN trace : trace[i] = Lookup(provider, alias)
    IN  Traced(unifiedSearchByName(<< >>, cfg, << >>, << >>, tokenStore, keychain,
                                   [bulk |-> 0, placed |-> << >>, fault |-> "none",
                                    order |-> <<1, 2, 3>>], now).trace)

C30_ProviderWithAccountsEnabled ==
    /\ \A provider \in Providers :
          Len(AccountsIn(cfg, provider)) > 0 => EnabledIn(cfg, provider)
    /\ op = "updateAccount" => LookedUp(arg.provider, arg.alias)

C24_OneRefreshPerKey ==
    (op = "searches" /\ \A i \in DOMAIN arg.calls : arg.calls[i].expired)
    => arg.sent <= 1

====
